---- MODULE Spec2Model ----
(***************************************************************************)
(* State-machine model of the fluentd process exporter                     *)
(* (src/fluentd_process_exporter.go): the Exporter's registry, the scrape  *)
(* lock, and Collect / collect / resolveFluentdIds / filterProc / procStat.*)
(* Text is modelled as a sequence of one-character strings so that the two *)
(* regular expressions and the label formatting are computed, not assumed. *)
(***************************************************************************)
EXTENDS Integers, Sequences, FiniteSets, Bags, TLC

\* ------------------------------------------------------------------ bounds

\* Goroutines that call Collect (one scrape request each).
NumCallers == 2

\* Successive readings of the process table of one host.
MaxAge == 2

\* ------------------------------------------------------------------ text

LitFluentd == <<"/", "f", "l", "u", "e", "n", "t", "d">>
LitShortFlag == <<"-", "c">>
LitLongFlag == <<"-", "-", "c", "o", "n", "f", "i", "g">>
LitConf == <<".", "c", "o", "n", "f">>
LitDefault == <<"d", "e", "f", "a", "u", "l", "t">>

\* The class \s of the regexp package: [\t\n\f\r ].
IsSpace(ch) == ch \in {" ", "\t", "\n", "\f", "\r"}

\* The literal lit occurs in s at position i.
HasAt(s, i, lit) ==
    /\ i >= 1
    /\ i + Len(lit) - 1 <= Len(s)
    /\ \A k \in 1..Len(lit) : s[i + k - 1] = lit[k]

\* Length of the maximal run of \s characters of s starting at position p.
SpaceRun(s, p) ==
    CHOOSE n \in 0..Len(s) :
        /\ p + n - 1 <= Len(s)
        /\ \A k \in 0..(n - 1) : IsSpace(s[p + k])
        /\ (p + n > Len(s) \/ ~IsSpace(s[p + n]))

SetMin(S) == CHOOSE x \in S : \A y \in S : x <= y
SetMax(S) == CHOOSE x \in S : \A y \in S : x >= y

\* strings.Join(a, sep)
Join(a, sep) ==
    LET joined[k \in 0..Len(a)] ==
            IF k = 0 THEN <<>>
            ELSE IF k = 1 THEN a[1]
            ELSE joined[k - 1] \o sep \o a[k]
    IN  joined[Len(a)]

\* strings.Trim(s, " "): leading and trailing spaces (only U+0020) removed.
TrimSpaces(s) ==
    LET keep == {i \in 1..Len(s) : s[i] # " "}
    IN  IF keep = {} THEN <<>> ELSE SubSeq(s, SetMin(keep), SetMax(keep))

\* The decimal digits of a natural number (the %d verb).
Digit(d) == <<"0", "1", "2", "3", "4", "5", "6", "7", "8", "9">>[d + 1]

Itoa(n) ==
    LET digits[m \in 0..n] ==
            IF m < 10 THEN <<Digit(m)>> ELSE digits[m \div 10] \o <<Digit(m % 10)>>
    IN  digits[n]

\* fmt.Sprintf("%s_%d", groupKey, i)
SprintfId(groupKey, i) == groupKey \o <<"_">> \o Itoa(i)

\* ------------------------------------------------------------------ regexps

\* processNameRegex = `.*/fluentd\s`, MatchString (unanchored): the prefix .*
\* matches the empty string at the position of the literal, so the text
\* matches iff "/fluentd" occurs somewhere followed by one \s character.
processNameRegex(cl) ==
    \E i \in 1..Len(cl) :
        /\ HasAt(cl, i, LitFluentd)
        /\ i + Len(LitFluentd) <= Len(cl)
        /\ IsSpace(cl[i + Len(LitFluentd)])

\* Length of the flag alternative (-c|--config) matching at position p, or 0.
FlagLenAt(cl, p) ==
    IF HasAt(cl, p, LitShortFlag) THEN Len(LitShortFlag)
    ELSE IF HasAt(cl, p, LitLongFlag) THEN Len(LitLongFlag)
    ELSE 0

\* Positions q at which the literal `\.conf` matches.
ConfAt(cl) == {q \in 1..Len(cl) : HasAt(cl, q, LitConf)}

\* `.` does not match a newline: positions a..b of cl hold none.
NoNewline(cl, a, b) == \A k \in a..b : cl[k] # "\n"

\* [^/] : positions a..b of cl hold no slash.
NoSlash(cl, a, b) == \A k \in a..b : cl[k] # "/"

\* With `.*?` starting at p and consuming l characters, the ends q of the
\* capture ([^/]+) for which `\.conf` follows (conf = ConfAt(cl)).
CaptureEnds(cl, conf, p, l) ==
    {q \in conf : q >= p + l + 1 /\ NoSlash(cl, p + l, q - 1)}

\* The lengths l that `.*?` may take when it starts at p.
LazyLens(cl, conf, p) ==
    {l \in 0..(Len(cl) - p + 1) :
        NoNewline(cl, p, p + l - 1) /\ CaptureEnds(cl, conf, p, l) # {}}

\* The space-run lengths w of `\s+` after a flag ending before position p0.
PlusLens(cl, conf, p0) ==
    {w \in 1..SpaceRun(cl, p0) : LazyLens(cl, conf, p0 + w) # {}}

\* The start positions s at which the whole expression matches.
MatchStarts(cl, conf) ==
    {s \in 1..Len(cl) :
        /\ IsSpace(cl[s])
        /\ FlagLenAt(cl, s + 1) > 0
        /\ PlusLens(cl, conf, s + 1 + FlagLenAt(cl, s + 1)) # {}}

\* configFileNameRegex = `\s(-c|--config)\s+.*?([^/]+)\.conf\s*`,
\* FindStringSubmatch: the leftmost match, and among the matches at that start
\* the one a backtracking matcher prefers: `\s+` as long as possible, then
\* `.*?` as short as possible, then `([^/]+)` as long as possible. The result
\* is <<match, group 1, group 2>> (Go indexes 0, 1, 2), or <<>> for no match.
configFileNameRegex(cl) ==
    LET conf == ConfAt(cl)
        starts == IF conf = {} THEN {} ELSE MatchStarts(cl, conf)
    IN  IF starts = {} THEN <<>>
        ELSE LET s == SetMin(starts)
                 f == FlagLenAt(cl, s + 1)
                 w == SetMax(PlusLens(cl, conf, s + 1 + f))
                 p == s + 1 + f + w
                 l == SetMin(LazyLens(cl, conf, p))
                 q == SetMax(CaptureEnds(cl, conf, p, l))
                 e == q + Len(LitConf) + SpaceRun(cl, q + Len(LitConf)) - 1
             IN  << SubSeq(cl, s, e), SubSeq(cl, s + 1, s + f), SubSeq(cl, p + l, q - 1) >>

\* ------------------------------------------------------------------ procfs

\* What procfs reports for one process: its PID, its command line (or an
\* error) and its stat (or an error). The stat holds the parent PID and the
\* usage figures behind CPUTime(), VirtualMemory() and ResidentMemory().
ProcStat(ppid, cpu, vsize, rss) ==
    [PPID |-> ppid, CPUTime |-> cpu, VirtualMemory |-> vsize, ResidentMemory |-> rss]
ReadableProc(pid, cla, stat) ==
    [PID |-> pid, CmdErr |-> FALSE, CmdLine |-> cla, StatErr |-> FALSE, Stat |-> stat]
NoCmdLineProc(pid) ==
    [PID |-> pid, CmdErr |-> TRUE, CmdLine |-> <<>>, StatErr |-> FALSE,
     Stat |-> ProcStat(2, 0, 0, 0)]
NoStatProc(pid, cla) ==
    [PID |-> pid, CmdErr |-> FALSE, CmdLine |-> cla, StatErr |-> TRUE,
     Stat |-> ProcStat(0, 0, 0, 0)]

\* ------------------------------------------------------------------ resolve

\* filterProc without the supervisor test (PPID 1 is let through).
filterProcNoSupervisorTest(proc) ==
    IF proc.CmdErr THEN <<>>
    ELSE LET cl == Join(proc.CmdLine, <<" ">>)
         IN  IF ~processNameRegex(cl) THEN <<>>
             ELSE IF proc.StatErr THEN <<>>
             ELSE cl

\* filterProc with the error of NewStat ignored.
filterProcIgnoringStatErr(proc) ==
    IF proc.CmdErr THEN <<>>
    ELSE LET cl == Join(proc.CmdLine, <<" ">>)
         IN  IF ~processNameRegex(cl) THEN <<>>
             ELSE IF proc.Stat.PPID = 1 THEN <<>>
             ELSE cl

\* Exporter.filterProc: the joined command line of a fluentd worker, or ""
\* (the empty text) for a process that is skipped.
filterProc(proc) ==
    IF proc.CmdErr THEN <<>>
    ELSE LET cl == Join(proc.CmdLine, <<" ">>)
         IN  IF ~processNameRegex(cl) THEN <<>>
             ELSE IF proc.StatErr THEN <<>>
             ELSE IF proc.Stat.PPID = 1 THEN <<>>
             ELSE cl

\* The group key resolveFluentdIds derives from a filtered command line.
groupKeyOf(cl) ==
    LET groupsKey == configFileNameRegex(cl)
    IN  IF Len(groupsKey) > 0 THEN TrimSpaces(groupsKey[3]) ELSE LitDefault

\* An append that keeps only the first process of a group (the test
\* `if _, exists := ids[key]; !exists` around the append).
AppendIdIfAbsent(m, key, pid) ==
    [k \in DOMAIN m \cup {key} |->
        IF k = key
        THEN (IF key \in DOMAIN m THEN m[key] ELSE <<pid>>)
        ELSE m[k]]

\* ids[key] = append(ids[key], pid)
AppendId(m, key, pid) ==
    [k \in DOMAIN m \cup {key} |->
        IF k = key
        THEN (IF key \in DOMAIN m THEN Append(m[key], pid) ELSE <<pid>>)
        ELSE m[k]]

\* Exporter.resolveFluentdIds when AllProcs returns table: ids after the loop
\* has run over table[1..n], for n up to the length of the table.
resolveFluentdIds(table) ==
    LET idsAfter[n \in 0..Len(table)] ==
            IF n = 0 THEN <<>>
            ELSE LET cl == filterProc(table[n])
                 IN  IF cl = <<>> THEN idsAfter[n - 1]
                     ELSE AppendId(idsAfter[n - 1], groupKeyOf(cl), table[n].PID)
    IN  idsAfter[Len(table)]

\* ------------------------------------------------------------------ process tables

ExeRuby == <<"/", "r", "u", "b", "y", "/", "2", ".", "5", ".", "0", "/", "b", "i", "n", "/", "f", "l", "u", "e", "n", "t", "d">>
ExeBin == <<"/", "b", "i", "n", "/", "f", "l", "u", "e", "n", "t", "d">>
ExeSh == <<"/", "b", "i", "n", "/", "s", "h">>
ExeInit == <<"/", "s", "b", "i", "n", "/", "i", "n", "i", "t">>
ArgDaemon == <<"-", "d">>
ArgOtherFluentConf == <<"o", "t", "h", "e", "r", "_", "f", "l", "u", "e", "n", "t", ".", "c", "o", "n", "f">>
ArgFluentConf == <<"f", "l", "u", "e", "n", "t", ".", "c", "o", "n", "f">>
ArgAbsFluentConf == <<"/", "e", "t", "c", "/", "t", "d", "/", "f", "l", "u", "e", "n", "t", ".", "c", "o", "n", "f">>
ArgXConf == <<"x", ".", "c", "o", "n", "f">>
KeyFluent == <<"f", "l", "u", "e", "n", "t">>
KeyOtherFluent == <<"o", "t", "h", "e", "r", "_", "f", "l", "u", "e", "n", "t">>

\* The process table of the README example: two supervisors (PPID 1), one
\* worker started with -c other_fluent.conf and three with -c fluent.conf,
\* with the usage figures the README shows (CPU time in hundredths).
SnapReadme == <<
    ReadableProc(110627, <<ExeRuby, LitShortFlag, ArgOtherFluentConf, ArgDaemon>>,
                 ProcStat(1, 31, 120000, 9000)),
    ReadableProc(110630, <<ExeRuby, LitShortFlag, ArgOtherFluentConf, ArgDaemon>>,
                 ProcStat(110627, 277772, 589860864, 30334976)),
    ReadableProc(18013, <<ExeRuby, LitShortFlag, ArgFluentConf, ArgDaemon>>,
                 ProcStat(1, 29, 110000, 8000)),
    ReadableProc(18018, <<ExeRuby, LitShortFlag, ArgFluentConf, ArgDaemon>>,
                 ProcStat(18013, 1248, 445337600, 28639232)),
    ReadableProc(18019, <<ExeRuby, LitShortFlag, ArgFluentConf, ArgDaemon>>,
                 ProcStat(18013, 1251, 445501440, 31068160)),
    ReadableProc(18021, <<ExeRuby, LitShortFlag, ArgFluentConf, ArgDaemon>>,
                 ProcStat(18013, 1310, 445526016, 28975104)) >>

\* A host read for the t-th time, with every kind of process the filter
\* meets: foreign processes (one of them with a -c flag), a process whose
\* command line is unreadable, a fluentd whose stat is unreadable, a
\* supervisor, a worker with an absolute --config path and a worker with no
\* config flag. The usage of the workers grows with t.
SnapMixed(t) == <<
    ReadableProc(1, <<ExeInit>>, ProcStat(0, 5, 1000, 100)),
    NoCmdLineProc(200),
    NoStatProc(300, <<ExeBin, LitLongFlag, ArgAbsFluentConf>>),
    ReadableProc(500, <<ExeSh, LitShortFlag, ArgXConf>>, ProcStat(2, 1, 2000, 200)),
    ReadableProc(18013, <<ExeBin, LitShortFlag, ArgFluentConf>>, ProcStat(1, 3, 3000, 300)),
    ReadableProc(18018, <<ExeBin, LitLongFlag, ArgAbsFluentConf>>,
                 ProcStat(18013, 20 + t, 4000 + t, 400 + t)),
    ReadableProc(400, <<ExeBin, ArgDaemon>>, ProcStat(2, 40 + t, 5000 + t, 500 + t)) >>

\* A table with no fluentd worker: a supervisor alone, a fluentd started
\* with no argument (its command line has no space after the name) and a
\* foreign process.
SnapNone == <<
    ReadableProc(1, <<ExeInit>>, ProcStat(0, 5, 1000, 100)),
    ReadableProc(18013, <<ExeBin, LitShortFlag, ArgFluentConf>>, ProcStat(1, 3, 3000, 300)),
    ReadableProc(700, <<ExeBin>>, ProcStat(2, 7, 7000, 700)) >>

\* The readings of /proc a scrape can meet, by name.
Readings == {<<"readme", 1>>, <<"none", 1>>} \cup {<<"mixed", t>> : t \in 1..MaxAge}

\* The process table AllProcs returns for a reading.
AllProcs(r) ==
    IF r[1] = "readme" THEN SnapReadme
    ELSE IF r[1] = "mixed" THEN SnapMixed(r[2])
    ELSE SnapNone

\* Exporter.procStat for a process that is still there: the ProcStat of pid.
procStat(table, pid) ==
    LET n == CHOOSE k \in 1..Len(table) : table[k].PID = pid
    IN  table[n].Stat

\* ------------------------------------------------------------------ state

\* The goroutines that call Collect on the one Exporter, one scrape request
\* each (the HTTP handler runs every request in a goroutine of its own).
Callers == 1..NumCallers

VARIABLES
    mutex,           \* e.mutex is held
    scrapeFailures,  \* value of the counter e.scrapeFailures
    fluentdUp,       \* value of the gauge e.fluentdUp
    cpuTime,         \* e.cpuTime: label values <<id, group>> -> value
    virtualMemory,   \* e.virtualMemory, likewise
    residentMemory,  \* e.residentMemory, likewise
    pc,              \* where each caller is: "Lock", "collect", "range", "done"
    procs,           \* the reading of /proc the running scrape met (names its table)
    ids,             \* collect's ids: group key -> list of PIDs
    work,            \* the (group, i, pid) iterations the range loops still have to run
    ws,              \* collect's ws
    ch,              \* the metrics sent on ch by the running Collect (a bag)
    results,         \* history: what procStat returned per <<group, i>> in the running scrape
    before,          \* history: scrapeFailures when the caller acquired the lock
    wrote,           \* history: label sets whose current value the running scrape wrote
    last,            \* history: the Collect call that returned most recently
    argv,            \* classifier runs: the argument vector and parent PID under test
    key              \* classifier runs: the group key derived for it, once derived

vars == << mutex, scrapeFailures, fluentdUp, cpuTime, virtualMemory, residentMemory,
           pc, procs, ids, work, ws, ch, results, before, wrote, last, argv, key >>

scrapeVars == << mutex, scrapeFailures, fluentdUp, cpuTime, virtualMemory, residentMemory,
                 pc, procs, ids, work, ws, ch, results, before, wrote, last >>

registry == << scrapeFailures, fluentdUp, cpuTime, virtualMemory, residentMemory >>

\* ------------------------------------------------------------------ registry

\* A metric as sent on the channel: name, label values, value.
Metric(name, id, group, value) == [name |-> name, id |-> id, group |-> group, value |-> value]

\* GaugeVec.WithLabelValues(l...).Set(v); also used for the history maps.
SetGauge(vec, l, v) == [x \in DOMAIN vec \cup {l} |-> IF x = l THEN v ELSE vec[x]]

\* GaugeVec.Collect(ch): every series the vector holds.
CollectVec(name, vec) == SetToBag({Metric(name, l[1], l[2], vec[l]) : l \in DOMAIN vec})

\* Gauge.Collect(ch) / Counter.Collect(ch) of an unlabelled metric.
CollectOne(name, value) == SetToBag({Metric(name, <<>>, <<>>, value)})

\* A read lock (RLock) instead of Lock: it does not wait for other holders.
CanRLock(m) == TRUE

\* e.mutex.Lock() proceeds only while the mutex is free.
CanLock(m) == ~m

\* A return path that leaves the mutex as it is.
UnlockMissing(m) == m

\* The deferred e.mutex.Unlock().
Unlock(m) == FALSE

\* fluentdUp.Add(ws) instead of Set.
UpAdded(up, n) == up + n

\* e.fluentdUp.Set(float64(ws)): the value of the gauge afterwards.
UpAfter(up, n) == n

\* A counter created anew on use: the value after its first Inc().
IncFromZero(v) == 1

\* e.scrapeFailures.Inc(): the value of the counter afterwards.
Inc(v) == v + 1

\* What procStat returned: an error, or the ProcStat ps.
Failure == [err |-> TRUE, ps |-> ProcStat(0, 0, 0, 0)]
Success(ps) == [err |-> FALSE, ps |-> ps]

\* ------------------------------------------------------------------ actions

NoReading == <<"", 0>>
NoArgv == [cla |-> <<>>, ppid |-> 0]
NoKey == [done |-> FALSE, cl |-> <<>>, key |-> <<>>]

NoScrape ==
    [n |-> 0, enumErr |-> FALSE, procs |-> NoReading, ids |-> <<>>, results |-> <<>>,
     ch |-> EmptyBag, before |-> 0]

Init ==
    /\ mutex = FALSE
    /\ scrapeFailures = 0
    /\ fluentdUp = 0
    /\ cpuTime = <<>>
    /\ virtualMemory = <<>>
    /\ residentMemory = <<>>
    /\ pc = [c \in Callers |-> "Lock"]
    /\ procs = [c \in Callers |-> NoReading]
    /\ ids = [c \in Callers |-> <<>>]
    /\ work = [c \in Callers |-> <<>>]
    /\ ws = [c \in Callers |-> 0]
    /\ ch = [c \in Callers |-> EmptyBag]
    /\ results = [c \in Callers |-> <<>>]
    /\ before = [c \in Callers |-> 0]
    /\ wrote = [c \in Callers |-> {}]
    /\ last = NoScrape
    /\ argv = NoArgv
    /\ key = NoKey

\* Collect: e.mutex.Lock() returns and collect is entered.
Lock(c) ==
    /\ pc[c] = "Lock"
    /\ CanLock(mutex)
    /\ mutex' = TRUE
    /\ pc' = [pc EXCEPT ![c] = "collect"]
    /\ before' = [before EXCEPT ![c] = scrapeFailures]
    /\ UNCHANGED << registry, procs, ids, work, ws, ch, results, wrote, last, argv, key >>

\* collect returns and the deferred Unlock runs: the locals are gone, what
\* the call did is kept as history.
Return(c, enumErr, sent) ==
    /\ mutex' = Unlock(mutex)
    /\ pc' = [pc EXCEPT ![c] = "done"]
    /\ last' = [n |-> last.n + 1, enumErr |-> enumErr, procs |-> procs[c], ids |-> ids[c],
                results |-> results[c], ch |-> sent, before |-> before[c]]
    /\ procs' = [procs EXCEPT ![c] = NoReading]
    /\ ids' = [ids EXCEPT ![c] = <<>>]
    /\ work' = [work EXCEPT ![c] = <<>>]
    /\ ws' = [ws EXCEPT ![c] = 0]
    /\ ch' = [ch EXCEPT ![c] = EmptyBag]
    /\ results' = [results EXCEPT ![c] = <<>>]
    /\ before' = [before EXCEPT ![c] = 0]
    /\ wrote' = [wrote EXCEPT ![c] = {}]
    /\ UNCHANGED << argv, key >>

\* The error path without its return: collect goes on to the (empty) loops
\* and sends the three vectors and up as well.
AllProcsFailsNoReturn(c) ==
    /\ pc[c] = "collect"
    /\ fluentdUp' = 0
    /\ scrapeFailures' = Inc(scrapeFailures)
    /\ UNCHANGED << cpuTime, virtualMemory, residentMemory >>
    /\ Return(c, TRUE, ch[c] (+) CollectOne("up", 0)
                             (+) CollectOne("exporter_scrape_failures_total", Inc(scrapeFailures))
                             (+) CollectVec("cpu_time", cpuTime)
                             (+) CollectVec("virtual_memory_usage", virtualMemory)
                             (+) CollectVec("resident_memory_usage", residentMemory)
                             (+) CollectOne("up", 0))

\* collect, AllProcs fails: up is set to 0 and sent, the failure counter is
\* incremented and sent, and collect returns.
AllProcsFails(c) ==
    /\ pc[c] = "collect"
    /\ fluentdUp' = 0
    /\ scrapeFailures' = Inc(scrapeFailures)
    /\ UNCHANGED << cpuTime, virtualMemory, residentMemory >>
    /\ Return(c, TRUE, ch[c] (+) CollectOne("up", 0)
                             (+) CollectOne("exporter_scrape_failures_total", Inc(scrapeFailures)))

\* The orders in which `range ids` can visit the keys of the map.
Orders(S) == {o \in [1..Cardinality(S) -> S] : \A x \in S : \E i \in DOMAIN o : o[i] = x}

\* The iterations of the inner loop for one group: position i (from 0) and pid.
GroupWork(g, pidList) == [j \in 1..Len(pidList) |-> [group |-> g, i |-> j - 1, pid |-> pidList[j]]]

\* The iterations of the two nested range loops, the groups visited in order o.
RangeWork(m, o) ==
    LET upTo[n \in 0..Len(o)] ==
            IF n = 0 THEN <<>> ELSE upTo[n - 1] \o GroupWork(o[n], m[o[n]])
    IN  upTo[Len(o)]

\* A resolveFluentdIds whose map outlives the call (a field of the Exporter
\* instead of `ids := make(map[string][]int)`): the PIDs resolved now are
\* appended to the lists the previous scrape left.
ResolveCarryingIds(c) ==
    /\ pc[c] = "collect"
    /\ \E r \in Readings :
        LET now == resolveFluentdIds(AllProcs(r))
            m == [g \in DOMAIN last.ids \cup DOMAIN now |->
                     (IF g \in DOMAIN last.ids THEN last.ids[g] ELSE <<>>)
                     \o (IF g \in DOMAIN now THEN now[g] ELSE <<>>)]
        IN  /\ procs' = [procs EXCEPT ![c] = r]
            /\ ids' = [ids EXCEPT ![c] = m]
            /\ \E o \in Orders(DOMAIN m) : work' = [work EXCEPT ![c] = RangeWork(m, o)]
    /\ ws' = [ws EXCEPT ![c] = 0]
    /\ pc' = [pc EXCEPT ![c] = "range"]
    /\ UNCHANGED << mutex, registry, ch, results, before, wrote, last, argv, key >>

\* collect, resolveFluentdIds succeeds: the ids are resolved and the range
\* loop starts with ws = 0.
Resolve(c) ==
    /\ pc[c] = "collect"
    /\ \E r \in Readings :
        LET m == resolveFluentdIds(AllProcs(r))
        IN  /\ procs' = [procs EXCEPT ![c] = r]
            /\ ids' = [ids EXCEPT ![c] = m]
            /\ \E o \in Orders(DOMAIN m) : work' = [work EXCEPT ![c] = RangeWork(m, o)]
    /\ ws' = [ws EXCEPT ![c] = 0]
    /\ pc' = [pc EXCEPT ![c] = "range"]
    /\ UNCHANGED << mutex, registry, ch, results, before, wrote, last, argv, key >>

\* A failed procStat that ends the loops (break) instead of continuing.
ProcStatFailsBreak(c) ==
    /\ pc[c] = "range"
    /\ work[c] # <<>>
    /\ LET it == Head(work[c])
       IN  /\ scrapeFailures' = Inc(scrapeFailures)
           /\ ch' = [ch EXCEPT ![c] =
                        @ (+) CollectOne("exporter_scrape_failures_total", Inc(scrapeFailures))]
           /\ results' = [results EXCEPT ![c] = SetGauge(@, <<it.group, it.i>>, Failure)]
    /\ work' = [work EXCEPT ![c] = <<>>]
    /\ UNCHANGED << mutex, fluentdUp, cpuTime, virtualMemory, residentMemory,
                    pc, procs, ids, ws, before, wrote, last, argv, key >>

\* The error branch without its `continue`: the iteration goes on and writes
\* the gauges from the empty procfs.ProcStat{} that procStat returned.
ProcStatFailsNoContinue(c) ==
    /\ pc[c] = "range"
    /\ work[c] # <<>>
    /\ LET it == Head(work[c])
           l == << SprintfId(it.group, it.i), it.group >>
       IN  /\ scrapeFailures' = Inc(scrapeFailures)
           /\ ch' = [ch EXCEPT ![c] =
                        @ (+) CollectOne("exporter_scrape_failures_total", Inc(scrapeFailures))]
           /\ results' = [results EXCEPT ![c] = SetGauge(@, <<it.group, it.i>>, Failure)]
           /\ cpuTime' = SetGauge(cpuTime, l, 0)
           /\ virtualMemory' = SetGauge(virtualMemory, l, 0)
           /\ residentMemory' = SetGauge(residentMemory, l, 0)
           /\ wrote' = [d \in Callers |-> IF d = c THEN wrote[d] \cup {l} ELSE wrote[d] \ {l}]
    /\ ws' = [ws EXCEPT ![c] = @ + 1]
    /\ work' = [work EXCEPT ![c] = Tail(@)]
    /\ UNCHANGED << mutex, fluentdUp, pc, procs, ids, before, last, argv, key >>

\* One iteration of the inner loop in which procStat returns an error (the
\* process is gone): the failure counter is incremented and sent, and the
\* loop continues.
ProcStatFails(c) ==
    /\ pc[c] = "range"
    /\ work[c] # <<>>
    /\ LET it == Head(work[c])
       IN  /\ scrapeFailures' = Inc(scrapeFailures)
           /\ ch' = [ch EXCEPT ![c] =
                        @ (+) CollectOne("exporter_scrape_failures_total", Inc(scrapeFailures))]
           /\ results' = [results EXCEPT ![c] = SetGauge(@, <<it.group, it.i>>, Failure)]
    /\ work' = [work EXCEPT ![c] = Tail(@)]
    /\ UNCHANGED << mutex, fluentdUp, cpuTime, virtualMemory, residentMemory,
                    pc, procs, ids, ws, before, wrote, last, argv, key >>

\* One iteration of the inner loop in which procStat returns ps: the three
\* gauges of the label set are written and ws is incremented.
ProcStatOk(c) ==
    /\ pc[c] = "range"
    /\ work[c] # <<>>
    /\ LET it == Head(work[c])
           ps == procStat(AllProcs(procs[c]), it.pid)
           l == << SprintfId(it.group, it.i), it.group >>
       IN  /\ cpuTime' = SetGauge(cpuTime, l, ps.CPUTime)
           /\ virtualMemory' = SetGauge(virtualMemory, l, ps.VirtualMemory)
           /\ residentMemory' = SetGauge(residentMemory, l, ps.ResidentMemory)
           /\ results' = [results EXCEPT ![c] = SetGauge(@, <<it.group, it.i>>, Success(ps))]
           /\ wrote' = [d \in Callers |-> IF d = c THEN wrote[d] \cup {l} ELSE wrote[d] \ {l}]
    /\ ws' = [ws EXCEPT ![c] = @ + 1]
    /\ work' = [work EXCEPT ![c] = Tail(@)]
    /\ UNCHANGED << mutex, scrapeFailures, fluentdUp, pc, procs, ids, ch, before, last, argv, key >>

\* The loops are over: up is set to ws, the three vectors and up are sent,
\* and collect returns.
Finish(c) ==
    /\ pc[c] = "range"
    /\ work[c] = <<>>
    /\ fluentdUp' = UpAfter(fluentdUp, ws[c])
    /\ UNCHANGED << scrapeFailures, cpuTime, virtualMemory, residentMemory >>
    /\ Return(c, FALSE, ch[c] (+) CollectVec("cpu_time", cpuTime)
                              (+) CollectVec("virtual_memory_usage", virtualMemory)
                              (+) CollectVec("resident_memory_usage", residentMemory)
                              (+) CollectOne("up", UpAfter(fluentdUp, ws[c])))

\* A step of a caller that is inside collect.
Step(c) == AllProcsFails(c) \/ Resolve(c) \/ ProcStatFails(c) \/ ProcStatOk(c) \/ Finish(c)

Next == \E c \in Callers : Lock(c) \/ Step(c)

Spec == Init /\ [][Next]_vars

\* Every OS call returns, and a caller waiting in Lock gets the mutex.
FairSpec == Spec /\ \A c \in Callers : WF_vars(Step(c)) /\ SF_vars(Lock(c))

\* ------------------------------------------------------------------ classifier runs

ExeFluentdUi == <<"/", "b", "i", "n", "/", "f", "l", "u", "e", "n", "t", "d", "-", "u", "i">>
ArgInclude == <<"-", "i">>
DirEtc == <<"/", "e", "t", "c", "/", "t", "d", "/">>
DirRelative == <<"c", "o", "n", "f", "/">>
DirConfD == <<"/", "e", "t", "c", "/", "a", ".", "c", "o", "n", "f", ".", "d", "/">>

\* The argument vectors the classifier is run on: an executable, then
\* nothing or a config flag with a path (none, absolute, relative, through a
\* directory named *.conf.d) to name.conf, then nothing, -d, or -i x.conf.
Executables == {ExeRuby, ExeBin, ExeSh, ExeFluentdUi}
ConfigFlags == {LitShortFlag, LitLongFlag}
Directories == {<<>>, DirEtc, DirRelative, DirConfD}
Names == {KeyFluent, KeyOtherFluent}
Trailers == {<<>>, <<ArgDaemon>>, <<ArgInclude, ArgXConf>>}

ConfigArgs ==
    {<<>>} \cup {<<f, d \o n \o LitConf>> : f \in ConfigFlags, d \in Directories, n \in Names}

ArgVectors == {<<e>> \o a \o t : e \in Executables, a \in ConfigArgs, t \in Trailers}

\* A classifier run starts from any argument vector and parent PID.
InitClassify ==
    /\ mutex = FALSE
    /\ scrapeFailures = 0
    /\ fluentdUp = 0
    /\ cpuTime = <<>>
    /\ virtualMemory = <<>>
    /\ residentMemory = <<>>
    /\ pc = [c \in Callers |-> "done"]
    /\ procs = [c \in Callers |-> NoReading]
    /\ ids = [c \in Callers |-> <<>>]
    /\ work = [c \in Callers |-> <<>>]
    /\ ws = [c \in Callers |-> 0]
    /\ ch = [c \in Callers |-> EmptyBag]
    /\ results = [c \in Callers |-> <<>>]
    /\ before = [c \in Callers |-> 0]
    /\ wrote = [c \in Callers |-> {}]
    /\ last = NoScrape
    /\ argv \in [cla : ArgVectors, ppid : {1, 18013}]
    /\ key = NoKey

\* The body of the loop of resolveFluentdIds for the one process: filterProc,
\* then the group key of the command line it returns.
Classify ==
    /\ ~key.done
    /\ LET cl == filterProc(ReadableProc(18018, argv.cla, ProcStat(argv.ppid, 1, 1, 1)))
       IN  key' = [done |-> TRUE, cl |-> cl,
                   key |-> IF cl = <<>> THEN <<>> ELSE groupKeyOf(cl)]
    /\ UNCHANGED << scrapeVars, argv >>

SpecClassify == InitClassify /\ [][Classify]_vars

\* ------------------------------------------------------------------ properties

\* Steps of caller c: collect returns on its error path / after its loops /
\* resolveFluentdIds returns the ids.
EnumFailed(c) == pc[c] = "collect" /\ pc'[c] = "done"
Finished(c) == pc[c] = "range" /\ pc'[c] = "done"

\* The positions <<group, i>> of the ids m, and the outcomes of a scrape.
Positions(m) == UNION {{<<g, i>> : i \in 0..(Len(m[g]) - 1)} : g \in DOMAIN m}
Failed(res) == {x \in DOMAIN res : res[x].err}
Succeeded(res) == {x \in DOMAIN res : ~res[x].err}

\* The metrics of a bag with one of the three per-process names.
PerProcessNames == {"cpu_time", "virtual_memory_usage", "resident_memory_usage"}
PerProcess(sent) == {m \in BagToSet(sent) : m.name \in PerProcessNames}

\* C1: in a scrape whose AllProcs fails, whatever the registry holds from
\* earlier scrapes, up is set to 0 and sent, the failure counter grows by
\* exactly 1 over the scrape, and no per-process series is sent.
C1_EnumerationFailure ==
    [][\A c \in Callers : EnumFailed(c) =>
          /\ fluentdUp' = 0
          /\ BagIn(Metric("up", <<>>, <<>>, 0), last'.ch)
          /\ scrapeFailures' = before[c] + 1
          /\ PerProcess(last'.ch) = {}]_vars

\* A scrape failed its enumeration after an earlier scrape had filled the vectors.
C1_Witness ==
    /\ last.n >= 2
    /\ last.enumErr
    /\ DOMAIN cpuTime # {}
    /\ fluentdUp = 0

\* The label values <<id, group>> collect uses for position x = <<group, i>>.
LabelsOf(x) == << SprintfId(x[1], x[2]), x[1] >>

\* C2: in a scrape that resolves n processes of which k fail their usage
\* fetch, the loops run over all n (no abort), the failure counter grows by
\* exactly k over the scrape, up is set to n - k, and each of the other n - k
\* processes has its three gauges written with the values fetched in this
\* scrape and sent.
C2_FetchFailure ==
    [][\A c \in Callers : Finished(c) =>
          LET res == results[c]
              n == Cardinality(Positions(ids[c]))
              k == Cardinality(Failed(res))
          IN  /\ DOMAIN res = Positions(ids[c])
              /\ scrapeFailures' = before[c] + k
              /\ fluentdUp' = n - k
              /\ Cardinality(Succeeded(res)) = n - k
              /\ \A x \in Succeeded(res) :
                    LET l == LabelsOf(x)
                        ps == res[x].ps
                    IN  /\ l \in DOMAIN cpuTime'
                        /\ cpuTime'[l] = ps.CPUTime
                        /\ virtualMemory'[l] = ps.VirtualMemory
                        /\ residentMemory'[l] = ps.ResidentMemory
                        /\ BagIn(Metric("cpu_time", l[1], l[2], ps.CPUTime), last'.ch)
                        /\ BagIn(Metric("virtual_memory_usage", l[1], l[2], ps.VirtualMemory),
                                 last'.ch)
                        /\ BagIn(Metric("resident_memory_usage", l[1], l[2], ps.ResidentMemory),
                                 last'.ch)]_vars

\* The failure scenario of the README table: one of the four workers is gone
\* at fetch time, the scrape returns with up = 3 and one failure more.
C2_Witness ==
    /\ last.n >= 1
    /\ ~last.enumErr
    /\ last.procs[1] = "readme"
    /\ Cardinality(Failed(last.results)) = 1
    /\ Cardinality(Succeeded(last.results)) = 3
    /\ fluentdUp = 3
    /\ scrapeFailures = last.before + 1

\* C3: up is overwritten, not accumulated: in every state it equals the
\* number of processes whose usage fetch succeeded in the most recent scrape
\* alone (0 if that scrape's enumeration failed, 0 before any scrape).
C3_UpOverwritten ==
    fluentdUp = IF last.enumErr THEN 0 ELSE Cardinality(Succeeded(last.results))

\* A second scrape with fewer successes than label sets the vectors hold:
\* an earlier scrape had successes of its own, and up does not count them.
C3_Witness ==
    /\ last.n >= 2
    /\ ~last.enumErr
    /\ fluentdUp >= 1
    /\ Cardinality(DOMAIN cpuTime) > fluentdUp

\* Callers inside collect.
InCollect == {c \in Callers : pc[c] \in {"collect", "range"}}

\* C4: at most one caller is inside collect at any time, and when a scrape
\* sends the vectors no label set holds a value written by another scrape
\* that is still running (every value is its own or that of a scrape that
\* returned before).
C4_MutualExclusion ==
    /\ [](Cardinality(InCollect) <= 1)
    /\ [][\A c \in Callers : Finished(c) =>
             \A d \in Callers \ {c} : wrote[d] \cap DOMAIN cpuTime = {}]_vars

\* One caller is writing gauges while another waits in Lock.
C4_Witness ==
    \E c, d \in Callers :
        /\ c # d
        /\ pc[c] = "range"
        /\ wrote[c] # {}
        /\ pc[d] = "Lock"
        /\ mutex

\* The command line of a process as filterProc joins it.
JoinedCmdLine(p) == Join(p.CmdLine, <<" ">>)

\* A process whose metadata cannot be read where filterProc reads it: the
\* command line, or the stat of a process whose command line names fluentd.
Unreadable(p) == p.CmdErr \/ (processNameRegex(JoinedCmdLine(p)) /\ p.StatErr)

\* A process that is a worker: readable, named fluentd, parent not 1.
Worker(p) ==
    /\ ~p.CmdErr
    /\ processNameRegex(JoinedCmdLine(p))
    /\ ~p.StatErr
    /\ p.Stat.PPID # 1

\* The processes of a table with a property, and the PIDs in the ids m.
ProcsWith(table, P(_)) == {n \in 1..Len(table) : P(table[n])}
PidsOf(m) == {m[x[1]][x[2] + 1] : x \in Positions(m)}

\* The table and ids of the scrape a caller is running.
TableOfCaller(c) == AllProcs(procs[c])

\* C5 as stated: a process whose metadata is unreadable during enumeration is
\* skipped and counted in the failure counter: right after resolveFluentdIds
\* the counter has grown by the number of unreadable processes.
C5_Original ==
    \A c \in Callers :
        (pc[c] = "range" /\ results[c] = <<>>) =>
            /\ \A n \in ProcsWith(TableOfCaller(c), Unreadable) :
                  TableOfCaller(c)[n].PID \notin PidsOf(ids[c])
            /\ scrapeFailures = before[c] + Cardinality(ProcsWith(TableOfCaller(c), Unreadable))

\* C5 (amended): a process whose metadata is unreadable during enumeration is
\* skipped and the failure counter is left as it is (the error is only
\* logged); the scrape continues with the remaining processes: every worker
\* of the table is in the ids, and the counter has grown only by the failed
\* usage fetches.
C5_MetadataFailureSkipped ==
    \A c \in Callers :
        pc[c] = "range" =>
            /\ \A n \in ProcsWith(TableOfCaller(c), Unreadable) :
                  TableOfCaller(c)[n].PID \notin PidsOf(ids[c])
            /\ \A n \in ProcsWith(TableOfCaller(c), Worker) :
                  TableOfCaller(c)[n].PID \in PidsOf(ids[c])
            /\ scrapeFailures = before[c] + Cardinality(Failed(results[c]))

\* A scrape met unreadable processes, resolved the workers listed after them
\* and has fetched the usage of all of them.
C5_Witness ==
    \E c \in Callers :
        /\ pc[c] = "range"
        /\ ProcsWith(TableOfCaller(c), Unreadable) # {}
        /\ work[c] = <<>>
        /\ ws[c] = 2
        /\ scrapeFailures = before[c]

\* C6: the failure counter never decreases, and over one scrape it grows by
\* exactly the number of failure events of that scrape: 1 for a failed
\* enumeration, otherwise one per failed usage fetch.
C6_FailuresMonotonic ==
    [][/\ scrapeFailures' >= scrapeFailures
       /\ \A c \in Callers :
             /\ EnumFailed(c) => scrapeFailures' - before[c] = 1
             /\ Finished(c) => scrapeFailures' - before[c] = Cardinality(Failed(results[c]))
             /\ (pc[c] = "range" /\ pc'[c] = "range") =>
                   scrapeFailures' - scrapeFailures =
                       Cardinality(Failed(results'[c])) - Cardinality(Failed(results[c]))]_vars

\* Two scrapes with failures: the counter holds the failures of both.
C6_Witness ==
    /\ last.n >= 2
    /\ last.before >= 1
    /\ scrapeFailures >= last.before + 2

\* The index in the table of the process with a PID (PIDs of a table differ).
IndexOfPid(table, pid) == CHOOSE n \in 1..Len(table) : table[n].PID = pid

\* The ids m group the workers of the table: every worker is at exactly one
\* position, every position holds a worker, and each list is in the order
\* of the table.
Grouped(table, m) ==
    /\ \A n \in ProcsWith(table, Worker) :
          Cardinality({x \in Positions(m) : m[x[1]][x[2] + 1] = table[n].PID}) = 1
    /\ \A x \in Positions(m) :
          \E n \in ProcsWith(table, Worker) : m[x[1]][x[2] + 1] = table[n].PID
    /\ \A g \in DOMAIN m : \A i, j \in 1..Len(m[g]) :
          i < j => IndexOfPid(table, m[g][i]) < IndexOfPid(table, m[g][j])

\* The cpu_time series of a bag of sent metrics.
CpuSeries(sent) == {s \in BagToSet(sent) : s.name = "cpu_time"}

\* C7: resolveFluentdIds puts every worker in exactly one group list exactly
\* once, in the order of the process table, and collect gives the process
\* at position i of group g the id "g_i"; hence the first scrape of an
\* Exporter, if no fetch fails, sets up to the number of workers, sends
\* exactly the group keys as group labels and, for a group of N processes,
\* exactly the ids of the ordinals 0..N-1.
C7_GroupingAndOrdinals ==
    /\ \A c \in Callers :
          pc[c] = "range" =>
              /\ Grouped(TableOfCaller(c), ids[c])
              /\ \A k \in 1..Len(work[c]) :
                    LET it == work[c][k]
                    IN  /\ it.group \in DOMAIN ids[c]
                        /\ it.i + 1 \in 1..Len(ids[c][it.group])
                        /\ ids[c][it.group][it.i + 1] = it.pid
    /\ (last.n = 1 /\ ~last.enumErr /\ Failed(last.results) = {}) =>
          /\ Grouped(AllProcs(last.procs), last.ids)
          /\ fluentdUp = Cardinality(ProcsWith(AllProcs(last.procs), Worker))
          /\ {s.group : s \in CpuSeries(last.ch)} = DOMAIN last.ids
          /\ \A g \in DOMAIN last.ids :
                {s.id : s \in {t \in CpuSeries(last.ch) : t.group = g}} =
                    {SprintfId(g, i) : i \in 0..(Len(last.ids[g]) - 1)}

\* The README example: 3 + 1 workers, first scrape, no failure: up = 4, two
\* groups, ids fluent_0..fluent_2 and other_fluent_0.
C7_Witness ==
    /\ last.n = 1
    /\ ~last.enumErr
    /\ last.procs[1] = "readme"
    /\ Failed(last.results) = {}
    /\ fluentdUp = 4
    /\ DOMAIN last.ids = {KeyFluent, KeyOtherFluent}
    /\ Len(last.ids[KeyFluent]) = 3
    /\ {s.id : s \in CpuSeries(last.ch)} =
          {KeyFluent \o <<"_", "0">>, KeyFluent \o <<"_", "1">>, KeyFluent \o <<"_", "2">>,
           KeyOtherFluent \o <<"_", "0">>}

\* C8: every PID in the ids belongs to a process whose command line was
\* readable and names fluentd and whose parent is not 1; a process with
\* parent 1 is at no position, no fetched usage is that of a process with
\* parent 1 (so none counts in up or feeds a series), and resolving ids,
\* foreign processes excluded, leaves the failure counter as it was.
C8_ClassifierFilter ==
    \A c \in Callers :
        pc[c] = "range" =>
            LET table == TableOfCaller(c)
            IN  /\ \A pid \in PidsOf(ids[c]) :
                      LET p == table[IndexOfPid(table, pid)]
                      IN  /\ ~p.CmdErr
                          /\ processNameRegex(JoinedCmdLine(p))
                          /\ ~p.StatErr
                          /\ p.Stat.PPID # 1
                /\ \A n \in 1..Len(table) :
                      (~table[n].StatErr /\ table[n].Stat.PPID = 1) =>
                          table[n].PID \notin PidsOf(ids[c])
                /\ \A x \in Succeeded(results[c]) : results[c][x].ps.PPID # 1
                /\ ws[c] <= Cardinality(ProcsWith(table, Worker))
                /\ results[c] = <<>> => scrapeFailures = before[c]

\* A scrape of a table with supervisors and foreign processes has fetched
\* the usage of its two workers.
C8_Witness ==
    \E c \in Callers :
        /\ pc[c] = "range"
        /\ procs[c][1] = "mixed"
        /\ \E n \in 1..Len(TableOfCaller(c)) : TableOfCaller(c)[n].Stat.PPID = 1
        /\ \E n \in 1..Len(TableOfCaller(c)) : ~processNameRegex(JoinedCmdLine(TableOfCaller(c)[n]))
        /\ Cardinality(Succeeded(results[c])) = 2
        /\ work[c] = <<>>

\* The first config flag of an argument vector that is followed by an
\* argument ending in .conf, or 0.
ConfigFlagAt(cla) ==
    LET at == {k \in 1..(Len(cla) - 1) :
                  /\ cla[k] \in ConfigFlags
                  /\ Len(cla[k + 1]) > Len(LitConf)
                  /\ HasAt(cla[k + 1], Len(cla[k + 1]) - Len(LitConf) + 1, LitConf)}
    IN  IF at = {} THEN 0 ELSE SetMin(at)

\* The name of a config argument path/name.conf: the directory prefix and
\* the extension removed, surrounding spaces trimmed.
NameOfConfig(arg) ==
    LET slashes == {k \in 1..Len(arg) : arg[k] = "/"}
        from == IF slashes = {} THEN 1 ELSE SetMax(slashes) + 1
    IN  TrimSpaces(SubSeq(arg, from, Len(arg) - Len(LitConf)))

\* C9: for a command line that names the daemon and contains -c or --config
\* followed by path/name.conf, the group key is name; for one with no
\* config flag the group key is default.
C9_GroupKey ==
    (key.done /\ key.cl # <<>>) =>
        LET k == ConfigFlagAt(argv.cla)
        IN  IF k > 0 THEN key.key = NameOfConfig(argv.cla[k + 1])
            ELSE (\A j \in 1..Len(argv.cla) : argv.cla[j] \notin ConfigFlags) =>
                     key.key = LitDefault

\* C10: every caller that waits in Lock eventually has its Collect return, on
\* every path the lock is released when collect returns, and a held lock is
\* always released again.
C10_KeepsServing ==
    /\ \A c \in Callers : (pc[c] = "Lock") ~> (pc[c] = "done")
    /\ mutex ~> ~mutex
    /\ [](InCollect = {} => ~mutex)

\* Every caller has returned, one of them after waiting behind a scrape that
\* had failures, and the mutex is free.
C10_Witness ==
    /\ \A c \in Callers : pc[c] = "done"
    /\ last.n = NumCallers
    /\ last.before >= 1
    /\ ~mutex

\* A process table enumerated in the opposite order.
Reversed(table) == [n \in 1..Len(table) |-> table[Len(table) + 1 - n]]

\* Two ids with the same keys and, per key, lists of the same length.
SameShape(m1, m2) ==
    /\ DOMAIN m1 = DOMAIN m2
    /\ \A g \in DOMAIN m1 : Len(m1[g]) = Len(m2[g])

\* C11: resolveFluentdIds is idempotent and keeps nothing between scrapes:
\* the ids a scrape resolves on the snapshot the previous scrape met are the
\* ids the previous scrape resolved (same lists), the same snapshot
\* enumerated in another order gives the same keys and list lengths, and
\* whatever earlier scrapes resolved, the ids hold the workers of the
\* snapshot of this scrape, each once, and nothing else.
C11_ResolveIdempotent ==
    \A c \in Callers :
        pc[c] = "range" =>
            /\ (last.n >= 1 /\ ~last.enumErr /\ procs[c] = last.procs) => ids[c] = last.ids
            /\ PidsOf(ids[c]) =
                  {TableOfCaller(c)[n].PID : n \in ProcsWith(TableOfCaller(c), Worker)}
            /\ Cardinality(Positions(ids[c])) = Cardinality(PidsOf(ids[c]))
            /\ results[c] = <<>> =>
                  SameShape(ids[c], resolveFluentdIds(Reversed(TableOfCaller(c))))

\* A scrape has resolved, on the snapshot the previous scrape met, the same
\* non-empty ids as the previous scrape.
C11_Witness ==
    \E c \in Callers :
        /\ pc[c] = "range"
        /\ last.n >= 1
        /\ ~last.enumErr
        /\ procs[c] = last.procs
        /\ procs[c][1] = "readme"
        /\ ids[c] = last.ids
        /\ Cardinality(Positions(ids[c])) = 4

\* ------------------------------------------------------------------ three-label variant

\* The variant src/unnamed/part_001 classifies a process by the comm field of
\* its stat (ProcStat.Comm), labels a series with conf_name, worker_number and
\* pid, and has regular expressions of its own.

\* processNameRegex = `/fluentd\s*`, MatchString: \s* matches the empty string,
\* so the text matches iff "/fluentd" occurs in it.
VariantProcessNameRegex(comm) == \E i \in 1..Len(comm) : HasAt(comm, i, LitFluentd)

\* With `.*` starting at p, the positions q of the slash that ends it for
\* which `(.+)\.conf` can follow (conf = ConfAt(cl)).
VariantSlashes(cl, conf, p) ==
    {q \in p..Len(cl) :
        /\ cl[q] = "/"
        /\ NoNewline(cl, p, q - 1)
        /\ \E e \in conf : e >= q + 2 /\ NoNewline(cl, q + 1, e - 1)}

\* The start positions s at which the whole expression matches.
VariantMatchStarts(cl, conf) ==
    {s \in 1..Len(cl) :
        /\ IsSpace(cl[s])
        /\ FlagLenAt(cl, s + 1) > 0
        /\ s + 1 + FlagLenAt(cl, s + 1) <= Len(cl)
        /\ IsSpace(cl[s + 1 + FlagLenAt(cl, s + 1)])
        /\ VariantSlashes(cl, conf, s + 2 + FlagLenAt(cl, s + 1)) # {}}

\* configFileNameRegex = `\s(-c|--config)\s.*/(.+)\.conf\s*`,
\* FindStringSubmatch: the leftmost match, `.*` as long as possible (the last
\* slash after which a name and .conf follow), then `(.+)` as long as possible
\* (up to the last .conf). <<match, group 1, group 2>>, or <<>> for no match.
VariantConfigFileNameRegex(cl) ==
    LET conf == ConfAt(cl)
        starts == IF conf = {} THEN {} ELSE VariantMatchStarts(cl, conf)
    IN  IF starts = {} THEN <<>>
        ELSE LET s == SetMin(starts)
                 f == FlagLenAt(cl, s + 1)
                 q == SetMax(VariantSlashes(cl, conf, s + 2 + f))
                 e == SetMax({x \in conf : x >= q + 2 /\ NoNewline(cl, q + 1, x - 1)})
                 z == e + Len(LitConf) + SpaceRun(cl, e + Len(LitConf)) - 1
             IN  << SubSeq(cl, s, z), SubSeq(cl, s + 1, s + f), SubSeq(cl, q + 1, e - 1) >>

\* What procfs reports for one process in the variant: the PID and the stat
\* (or an error); the stat holds comm, at most 15 characters in the kernel.
VariantProc(pid, comm, ppid, cpu, vsize, rss) ==
    [PID |-> pid, StatErr |-> FALSE,
     Stat |-> [Comm |-> comm, PPID |-> ppid, CPUTime |-> cpu, VirtualMemory |-> vsize,
               ResidentMemory |-> rss]]
VariantNoStatProc(pid) ==
    [PID |-> pid, StatErr |-> TRUE,
     Stat |-> [Comm |-> <<>>, PPID |-> 0, CPUTime |-> 0, VirtualMemory |-> 0,
               ResidentMemory |-> 0]]

\* The process passes the tests of the loop of the variant's resolveFluentdIds:
\* stat readable, comm names fluentd, parent not 1.
VariantPasses(proc) ==
    /\ ~proc.StatErr
    /\ VariantProcessNameRegex(proc.Stat.Comm)
    /\ proc.Stat.PPID # 1

\* The group key the variant derives from comm.
VariantGroupKeyOf(comm) ==
    LET groupsKey == VariantConfigFileNameRegex(comm)
    IN  IF Len(groupsKey) = 0 THEN LitDefault ELSE TrimSpaces(groupsKey[3])

\* if _, exists := ids[key]; !exists { ids[key] = append(ids[key], stat.PID) }
VariantAppendId(m, groupKey, pid) ==
    IF groupKey \in DOMAIN m THEN m
    ELSE [k \in DOMAIN m \cup {groupKey} |-> IF k = groupKey THEN <<pid>> ELSE m[k]]

\* The variant's resolveFluentdIds when AllProcs returns table.
VariantResolveFluentdIds(table) ==
    LET idsAfter[n \in 0..Len(table)] ==
            IF n = 0 THEN <<>>
            ELSE IF ~VariantPasses(table[n]) THEN idsAfter[n - 1]
            ELSE VariantAppendId(idsAfter[n - 1], VariantGroupKeyOf(table[n].Stat.Comm),
                                  table[n].PID)
    IN  idsAfter[Len(table)]

CommSystemd == <<"s", "y", "s", "t", "e", "m", "d">>
CommRuby == <<"r", "u", "b", "y">>
CommFluentd == <<"b", "i", "n", "/", "f", "l", "u", "e", "n", "t", "d">>
CommFluentdCut == <<"/", "f", "l", "u", "e", "n", "t", "d", " ", "-", "c", " ", "/", "a">>

\* A host read for the t-th time: init, a process whose stat is unreadable,
\* a supervisor (PPID 1), two workers of it with the same comm, and a process
\* of another name. The usage of the workers grows with t.
VariantSnapWorkers(t) == <<
    VariantProc(1, CommSystemd, 0, 5, 1000, 100),
    VariantNoStatProc(13),
    VariantProc(10, CommFluentd, 1, 3, 3000, 300),
    VariantProc(11, CommFluentd, 10, 20 + t, 4000 + t, 400 + t),
    VariantProc(12, CommFluentd, 10, 30 + t, 5000 + t, 500 + t),
    VariantProc(14, CommRuby, 10, 9, 9000, 900) >>

\* A supervisor with one worker whose comm is a cut command line.
VariantSnapSingle == <<
    VariantProc(10, CommFluentdCut, 1, 3, 3000, 300),
    VariantProc(11, CommFluentdCut, 10, 21, 4001, 401) >>

\* No fluentd at all.
VariantSnapIdle == <<
    VariantProc(1, CommSystemd, 0, 5, 1000, 100),
    VariantProc(14, CommRuby, 1, 9, 9000, 900) >>

VariantReadings ==
    {<<"single", 1>>, <<"idle", 1>>} \cup {<<"workers", t>> : t \in 1..MaxAge}

VariantAllProcs(r) ==
    IF r[1] = "workers" THEN VariantSnapWorkers(r[2])
    ELSE IF r[1] = "single" THEN VariantSnapSingle
    ELSE VariantSnapIdle

\* The variant's procStat for a process that is still there.
VariantProcStat(table, pid) ==
    LET n == CHOOSE k \in 1..Len(table) : table[k].PID = pid
    IN  table[n].Stat

\* A metric of the variant as sent on the channel; the label values are
\* <<conf_name, worker_number, pid>>, or <<>> for an unlabelled metric.
VariantMetric(name, labels, value) == [name |-> name, labels |-> labels, value |-> value]
VariantCollectVec(name, vec) == SetToBag({VariantMetric(name, l, vec[l]) : l \in DOMAIN vec})
VariantCollectOne(name, value) == SetToBag({VariantMetric(name, <<>>, value)})

\* labels := []string{groupKey, strconv.Itoa(i), strconv.Itoa(pid)}
VariantLabels(groupKey, i, pid) == << groupKey, Itoa(i), Itoa(pid) >>

VariantAllProcsFails(c) ==
    /\ pc[c] = "collect"
    /\ fluentdUp' = 0
    /\ scrapeFailures' = Inc(scrapeFailures)
    /\ UNCHANGED << cpuTime, virtualMemory, residentMemory >>
    /\ Return(c, TRUE, ch[c] (+) VariantCollectOne("up", 0)
                             (+) VariantCollectOne("exporter_scrape_failures_total",
                                                   Inc(scrapeFailures)))

VariantResolve(c) ==
    /\ pc[c] = "collect"
    /\ \E r \in VariantReadings :
        LET m == VariantResolveFluentdIds(VariantAllProcs(r))
        IN  /\ procs' = [procs EXCEPT ![c] = r]
            /\ ids' = [ids EXCEPT ![c] = m]
            /\ \E o \in Orders(DOMAIN m) : work' = [work EXCEPT ![c] = RangeWork(m, o)]
    /\ ws' = [ws EXCEPT ![c] = 0]
    /\ pc' = [pc EXCEPT ![c] = "range"]
    /\ UNCHANGED << mutex, registry, ch, results, before, wrote, last, argv, key >>

VariantProcStatFails(c) ==
    /\ pc[c] = "range"
    /\ work[c] # <<>>
    /\ LET it == Head(work[c])
       IN  /\ scrapeFailures' = Inc(scrapeFailures)
           /\ ch' = [ch EXCEPT ![c] =
                        @ (+) VariantCollectOne("exporter_scrape_failures_total",
                                                Inc(scrapeFailures))]
           /\ results' = [results EXCEPT ![c] = SetGauge(@, <<it.group, it.i>>, Failure)]
    /\ work' = [work EXCEPT ![c] = Tail(@)]
    /\ UNCHANGED << mutex, fluentdUp, cpuTime, virtualMemory, residentMemory,
                    pc, procs, ids, ws, before, wrote, last, argv, key >>

VariantProcStatOk(c) ==
    /\ pc[c] = "range"
    /\ work[c] # <<>>
    /\ LET it == Head(work[c])
           ps == VariantProcStat(VariantAllProcs(procs[c]), it.pid)
           l == VariantLabels(it.group, it.i, it.pid)
       IN  /\ cpuTime' = SetGauge(cpuTime, l, ps.CPUTime)
           /\ virtualMemory' = SetGauge(virtualMemory, l, ps.VirtualMemory)
           /\ residentMemory' = SetGauge(residentMemory, l, ps.ResidentMemory)
           /\ results' = [results EXCEPT ![c] =
                             SetGauge(@, <<it.group, it.i>>,
                                      Success(ProcStat(ps.PPID, ps.CPUTime, ps.VirtualMemory,
                                                       ps.ResidentMemory)))]
           /\ wrote' = [d \in Callers |-> IF d = c THEN wrote[d] \cup {l} ELSE wrote[d] \ {l}]
    /\ ws' = [ws EXCEPT ![c] = @ + 1]
    /\ work' = [work EXCEPT ![c] = Tail(@)]
    /\ UNCHANGED << mutex, scrapeFailures, fluentdUp, pc, procs, ids, ch, before, last, argv, key >>

VariantFinish(c) ==
    /\ pc[c] = "range"
    /\ work[c] = <<>>
    /\ fluentdUp' = UpAfter(fluentdUp, ws[c])
    /\ UNCHANGED << scrapeFailures, cpuTime, virtualMemory, residentMemory >>
    /\ Return(c, FALSE, ch[c] (+) VariantCollectVec("cpu_time", cpuTime)
                              (+) VariantCollectVec("virtual_memory_usage", virtualMemory)
                              (+) VariantCollectVec("resident_memory_usage", residentMemory)
                              (+) VariantCollectOne("up", UpAfter(fluentdUp, ws[c])))

VariantNext ==
    \E c \in Callers :
        \/ Lock(c)
        \/ VariantAllProcsFails(c)
        \/ VariantResolve(c)
        \/ VariantProcStatFails(c)
        \/ VariantProcStatOk(c)
        \/ VariantFinish(c)

\* The variant's Exporter starts like the main one.
SpecVariant == Init /\ [][VariantNext]_vars

\* The processes of a table that pass the variant's filter.
VariantMatching(table) == {n \in 1..Len(table) : VariantPasses(table[n])}

\* C12: in the three-label variant resolveFluentdIds puts every process that
\* passes the filter in the list of its group, in enumeration order: a group
\* key with N matching processes has a list of length N, and a scrape with
\* no fetch failure sets up to the number of matching processes.
C12_VariantAccumulates ==
    /\ \A c \in Callers :
          pc[c] = "range" =>
              LET table == VariantAllProcs(procs[c])
              IN  \A g \in {VariantGroupKeyOf(table[n].Stat.Comm) : n \in VariantMatching(table)} :
                      /\ g \in DOMAIN ids[c]
                      /\ LET sel == SelectSeq(table,
                                               LAMBDA p : VariantPasses(p)
                                                          /\ VariantGroupKeyOf(p.Stat.Comm) = g)
                         IN  ids[c][g] = [j \in 1..Len(sel) |-> sel[j].PID]
    /\ (last.n >= 1 /\ ~last.enumErr /\ Failed(last.results) = {}) =>
          fluentdUp = Cardinality(VariantMatching(VariantAllProcs(last.procs)))

\* The label sets <<id, group>> of the series of one name in a bag of sent
\* metrics.
SeriesLabels(sent, name) == {<<s.id, s.group>> : s \in {t \in BagToSet(sent) : t.name = name}}

\* C13: after any sequence of scrapes, a scrape whose enumeration succeeds
\* sends, for each per-process gauge, exactly the label sets it wrote itself
\* (those of the processes whose fetch succeeded in it), so it sends as many
\* cpu_time series as the value of up it sends; nothing is sent with a value
\* of an earlier scrape.
C13_NoStaleSeries ==
    (last.n >= 1 /\ ~last.enumErr) =>
        /\ \A name \in PerProcessNames :
              SeriesLabels(last.ch, name) = {LabelsOf(x) : x \in Succeeded(last.results)}
        /\ \E u \in BagToSet(last.ch) :
              u.name = "up" /\ u.value = Cardinality(CpuSeries(last.ch))

\* The number of times a series (name and label values) is in a bag of sent
\* metrics, whatever the values.
Emissions(sent, name, id, group) ==
    LET same == {s \in BagToSet(sent) : s.name = name /\ s.id = id /\ s.group = group}
        upTo[S \in SUBSET same] ==
            IF S = {} THEN 0
            ELSE LET s == CHOOSE x \in S : TRUE
                 IN  CopiesIn(s, sent) + upTo[S \ {s}]
    IN  upTo[same]

\* C14: within one scrape no series is sent on the channel more than once;
\* this holds of the scrape that is running and of the one that returned
\* last, however many fetches fail in it.
C14_NoDuplicateSeries ==
    \A sent \in {last.ch} \cup {ch[c] : c \in Callers} :
        \A s \in BagToSet(sent) : Emissions(sent, s.name, s.id, s.group) <= 1

\* A usage snapshot of one process in some reading of the process table with
\* these three figures.
FromOneSnapshot(cpu, vsize, rss) ==
    \E r \in Readings : \E n \in 1..Len(AllProcs(r)) :
        LET p == AllProcs(r)[n]
        IN  /\ ~p.StatErr
            /\ p.Stat.CPUTime = cpu
            /\ p.Stat.VirtualMemory = vsize
            /\ p.Stat.ResidentMemory = rss

\* C15: whenever no scrape is running the three gauge vectors hold the same
\* label sets, and the three values of a label set are the figures of one
\* usage snapshot of one process; a failed fetch and a failed enumeration
\* leave the three vectors as they were.
C15_VectorsAligned ==
    /\ [](InCollect = {} =>
            /\ DOMAIN cpuTime = DOMAIN virtualMemory
            /\ DOMAIN cpuTime = DOMAIN residentMemory
            /\ \A l \in DOMAIN cpuTime :
                  FromOneSnapshot(cpuTime[l], virtualMemory[l], residentMemory[l]))
    /\ [][\A c \in Callers :
             (EnumFailed(c) \/ Cardinality(Failed(results'[c])) > Cardinality(Failed(results[c])))
                 => UNCHANGED << cpuTime, virtualMemory, residentMemory >>]_vars

\* No scrape is running; two scrapes have returned, the last of them with a
\* failed fetch, and the vectors hold label sets written by both.
C15_Witness ==
    /\ InCollect = {}
    /\ last.n >= 2
    /\ ~last.enumErr
    /\ Failed(last.results) # {}
    /\ Succeeded(last.results) # {}
    /\ Cardinality(DOMAIN cpuTime) > Cardinality(Succeeded(last.results))
    /\ DOMAIN cpuTime = DOMAIN residentMemory

====
